---- MODULE Spec2Model ----
(***************************************************************************)
(* Model of the classroom ledger of src/app.py: the Blockchain class       *)
(* (chain, current_transactions, difficulty), the summary helpers and the  *)
(* Streamlit handlers that mutate the ledger (add transaction, mine,       *)
(* export / import).                                                       *)
(*                                                                         *)
(* Python values are represented as follows.                               *)
(*   dict   a record; a key the dict lacks is a field the record lacks,    *)
(*          so d['k'] raises KeyError exactly when "k" \notin DOMAIN d     *)
(*   list   a sequence                                                     *)
(*   None   PyNone                                                         *)
(*   str    a TLA+ string, except hash strings: the literal '1' is         *)
(*          [lit |-> "1"] and a hex digest is [sha256 |-> preimage]; the   *)
(*          digest is kept as its preimage (SHA-256 taken collision free)  *)
(*   float  amounts and timestamps are the numbers themselves; the model   *)
(*          uses integer values, which float arithmetic adds exactly       *)
(* A JSON document is a tagged record: [null |-> TRUE], [str |-> s],       *)
(* [num |-> n], [arr |-> <<...>>], [obj |-> [key |-> document, ...]];      *)
(* text that is not JSON is [bad |-> TRUE].                                *)
(***************************************************************************)
EXTENDS Integers, Sequences, FiniteSets, TLC

VARIABLES
    chain,                 \* bc.chain
    current_transactions,  \* bc.current_transactions
    difficulty,            \* bc.difficulty
    pc,                    \* position in the mine handler, "idle" between handlers
    last_proof,            \* local of the mine handler (line 232)
    proof,                 \* local of the mine handler (line 234)
    note,                  \* the note text input read by the mine handler
    clock,                 \* the value time.time() returns
    returned,              \* value new_transaction returned for each pending transaction
    outcome,               \* the last handler and the exception that ended it
    script                 \* progress along the scenario of spec section 8

vars == <<chain, current_transactions, difficulty, pc, last_proof, proof, note, clock,
          returned, outcome, script>>

(***************************************************************************)
(* Bounds of the model.                                                    *)
(***************************************************************************)
MaxChain == 3      \* the mine handler is not started on a longer chain
MaxPending == 1    \* user transactions accepted into one pending batch; the mine
                   \* handler is not started on a longer one

(***************************************************************************)
(* Program constants and inputs.                                           *)
(***************************************************************************)
PyNone == "<None>"
NodeId == "node"
GenesisProof == 100
GenesisNote == "Genesis Block"
NoHash == [none |-> TRUE]

\* the values time.time() takes
Times == {0, 1}

\* the difficulty argument of the constructor; the application passes 3, for
\* which the search takes thousands of steps
Difficulties == {1}
Notes == {""}

\* (sender, recipient, amount) as entered in the forms or the raw JSON box
TxInputs == { <<"A", "B", 5>>, <<"0", "B", 1>> }

bc == [chain |-> chain, current_transactions |-> current_transactions,
       difficulty |-> difficulty]

Raised(e) == [raised |-> e]
Val(v) == [val |-> v]
IsRaised(r) == "raised" \in DOMAIN r
Err(r) == IF IsRaised(r) THEN r.raised ELSE "none"

(***************************************************************************)
(* json.dumps / json.loads on the values the ledger holds.                 *)
(***************************************************************************)
\* dumps_str writing None as the text "None"
dumps_str_none_as_text(s) == IF s = PyNone THEN [str |-> "None"] ELSE [str |-> s]

dumps_str(s) == IF s = PyNone THEN [null |-> TRUE] ELSE [str |-> s]

loads_str(j) == IF "null" \in DOMAIN j THEN PyNone ELSE j.str

dumps_tx(tx) ==
    [obj |-> [k \in DOMAIN tx |->
        IF k \in {"sender", "recipient"} THEN dumps_str(tx[k]) ELSE [num |-> tx[k]]]]

loads_tx(j) ==
    [k \in DOMAIN j.obj |->
        IF k \in {"sender", "recipient"} THEN loads_str(j.obj[k]) ELSE j.obj[k].num]

dumps_block(block) ==
    [obj |-> [k \in DOMAIN block |->
        CASE k \in {"index", "timestamp", "proof"} -> [num |-> block[k]]
          [] k = "transactions" ->
                [arr |-> [i \in 1..Len(block[k]) |-> dumps_tx(block[k][i])]]
          [] OTHER -> [str |-> block[k]]]]

loads_block(j) ==
    [k \in DOMAIN j.obj |->
        CASE k \in {"index", "timestamp", "proof"} -> j.obj[k].num
          [] k = "transactions" ->
                [i \in 1..Len(j.obj[k].arr) |-> loads_tx(j.obj[k].arr[i])]
          [] OTHER -> j.obj[k].str]

json_dumps(ch) == [arr |-> [i \in 1..Len(ch) |-> dumps_block(ch[i])]]

json_loads(doc) ==
    IF "bad" \in DOMAIN doc THEN Raised("JSONDecodeError")
    ELSE IF "arr" \in DOMAIN doc
         THEN Val([list |-> [i \in 1..Len(doc.arr) |-> loads_block(doc.arr[i])]])
         ELSE Val([dict |-> loads_block(doc)])

(***************************************************************************)
(* Blockchain                                                              *)
(***************************************************************************)
hash(block) == [sha256 |-> dumps_block(block)]

\* new_block without line 29: the pending batch is not cleared
new_block_keeps_pending(self, pr, previous_hash, nt, now) ==
    LET block == [index |-> Len(self.chain) + 1,
                  timestamp |-> now,
                  transactions |-> self.current_transactions,
                  proof |-> pr,
                  previous_hash |-> IF previous_hash # NoHash THEN previous_hash
                                    ELSE hash(self.chain[Len(self.chain)]),
                  note |-> nt]
    IN [chain |-> Append(self.chain, block),
        current_transactions |-> self.current_transactions]

\* new_block linking to the first block instead of the last
new_block_links_first(self, pr, previous_hash, nt, now) ==
    LET block == [index |-> Len(self.chain) + 1,
                  timestamp |-> now,
                  transactions |-> self.current_transactions,
                  proof |-> pr,
                  previous_hash |-> IF previous_hash # NoHash THEN previous_hash
                                    ELSE hash(self.chain[1]),
                  note |-> nt]
    IN [chain |-> Append(self.chain, block), current_transactions |-> <<>>]

\* new_block numbering the block by its position counted from 0
new_block_zero_based(self, pr, previous_hash, nt, now) ==
    LET block == [index |-> Len(self.chain),
                  timestamp |-> now,
                  transactions |-> self.current_transactions,
                  proof |-> pr,
                  previous_hash |-> IF previous_hash # NoHash THEN previous_hash
                                    ELSE hash(self.chain[Len(self.chain)]),
                  note |-> nt]
    IN [chain |-> Append(self.chain, block), current_transactions |-> <<>>]

\* new_block clearing the pending list without recording it in the block
new_block_drops_transactions(self, pr, previous_hash, nt, now) ==
    LET block == [index |-> Len(self.chain) + 1,
                  timestamp |-> now,
                  transactions |-> <<>>,
                  proof |-> pr,
                  previous_hash |-> IF previous_hash # NoHash THEN previous_hash
                                    ELSE hash(self.chain[Len(self.chain)]),
                  note |-> nt]
    IN [chain |-> Append(self.chain, block), current_transactions |-> <<>>]

new_block(self, pr, previous_hash, nt, now) ==
    LET block == [index |-> Len(self.chain) + 1,
                  timestamp |-> now,
                  transactions |-> self.current_transactions,
                  proof |-> pr,
                  previous_hash |-> IF previous_hash # NoHash THEN previous_hash
                                    ELSE hash(self.chain[Len(self.chain)]),
                  note |-> nt]
    IN [chain |-> Append(self.chain, block), current_transactions |-> <<>>]

\* new_transaction on a ledger whose last block shares the pending list: the
\* transaction lands in the block as well
new_transaction_shared_list(self, sender, recipient, amount, now) ==
    LET tx == [sender |-> sender, recipient |-> recipient,
               amount |-> amount, timestamp |-> now]
        n == Len(self.chain)
        last == self.chain[n]
        after == [chain |-> IF n > 0 /\ "transactions" \in DOMAIN last
                            THEN [self.chain EXCEPT ![n].transactions =
                                      Append(@, tx)]
                            ELSE self.chain,
                  current_transactions |-> Append(self.current_transactions, tx)]
    IN [self |-> after,
        result |-> IF self.chain = <<>> THEN Val(1)
                   ELSE IF "index" \in DOMAIN last THEN Val(last.index + 1)
                   ELSE Raised("KeyError")]

\* the state after the call, and the value returned or the exception raised
new_transaction(self, sender, recipient, amount, now) ==
    LET tx == [sender |-> sender, recipient |-> recipient,
               amount |-> amount, timestamp |-> now]
        after == [chain |-> self.chain,
                  current_transactions |-> Append(self.current_transactions, tx)]
        last == self.chain[Len(self.chain)]
    IN [self |-> after,
        result |-> IF self.chain = <<>> THEN Val(1)
                   ELSE IF "index" \in DOMAIN last THEN Val(last.index + 1)
                   ELSE Raised("KeyError")]

\* line 50: self.chain[-1]
last_block(self) ==
    IF self.chain = <<>> THEN Raised("IndexError")
    ELSE Val(self.chain[Len(self.chain)])

(***************************************************************************)
(* Proof of work.  The guess f'{last_proof}{proof}' is the decimal text of *)
(* last_proof followed by that of proof; it is kept as the number that     *)
(* text denotes.  ZeroPrefix1 and ZeroPrefix2 list every guess, among the  *)
(* last_proof values 16, 26, 31, 33, 48, 57, 100, 175, 226, 289, 346       *)
(* followed by a proof of 0..400, whose SHA-256 hex digest starts with '0' *)
(* and with '00' (computed with hashlib); none of these digests starts     *)
(* with '000'.  The proofs the model reaches stay within these values.     *)
(***************************************************************************)
ZeroPrefix1 ==
    {
      331, 334, 570, 1631, 1665, 1680, 2633, 2650, 2665, 2671, 2891,
      2896, 3148, 3157, 3324, 3335, 3340, 3363, 3366, 3376, 3462, 3464,
      4826, 4843, 4852, 4858, 4871, 4886, 5724, 5728, 5785, 10016,
      10038, 10039, 10069, 16101, 16119, 16147, 16154, 16163, 16170,
      16186, 16192, 16193, 16202, 16220, 16237, 16249, 16256, 16263,
      16273, 16283, 16296, 16314, 16319, 16324, 16339, 16345, 16366,
      16375, 16386, 16397, 17510, 17527, 17543, 17583, 22637, 22694,
      26132, 26144, 26155, 26174, 26182, 26223, 26270, 26272, 26282,
      26288, 26309, 26313, 26324, 26350, 26371, 26382, 28936, 28971,
      28980, 31103, 31122, 31128, 31129, 31158, 31177, 31196, 31219,
      31246, 31255, 31259, 31269, 31280, 31294, 31317, 31324, 31325,
      31329, 31339, 31357, 31367, 31383, 31387, 33105, 33117, 33171,
      33172, 33183, 33203, 33248, 33255, 33271, 33277, 33287, 33307,
      33308, 33315, 33320, 33344, 33347, 33362, 33389, 34612, 34633,
      34657, 48113, 48128, 48132, 48137, 48142, 48151, 48160, 48164,
      48165, 48202, 48203, 48207, 48212, 48225, 48251, 48258, 48269,
      48288, 48340, 48355, 48364, 48375, 48377, 48389, 57106, 57107,
      57115, 57128, 57148, 57150, 57161, 57190, 57254, 57266, 57272,
      57288, 57289, 57300, 57305, 57314, 57351, 57353, 57361, 57364,
      57382, 57397, 100103, 100109, 100123, 100126, 100138, 100140,
      100151, 100197, 100200, 100210, 100225, 100226, 100251, 100255,
      100268, 100272, 100304, 100312, 100319, 100327, 100350, 100383,
      100390, 100396, 175155, 175179, 175215, 175232, 175294, 175318,
      175332, 175335, 175400, 226111, 226155, 226172, 226207, 226210,
      226238, 226239, 226268, 226326, 226346, 226353, 226360, 226361,
      226376, 226388, 226391, 226400, 289101, 289120, 289125, 289140,
      289150, 289164, 289165, 289175, 289191, 289246, 289262, 289290,
      289296, 289300, 289310, 289315, 289319, 289328, 289340, 289361,
      346113, 346132, 346139, 346153, 346156, 346189, 346216, 346229,
      346230, 346235, 346238, 346249, 346251, 346270, 346283, 346292,
      346297, 346345, 346350, 346382, 346391, 346393 }
ZeroPrefix2 ==
    {
      2650, 16101, 16237, 17527, 26272, 31129, 34657, 48128, 48142,
      48165, 57289, 57364, 100226, 100319, 226346, 226360, 289175,
      289296, 346238, 346393 }

Digits(n) == IF n < 10 THEN 1 ELSE IF n < 100 THEN 2 ELSE 3

RECURSIVE Pow10(_)
Pow10(k) == IF k = 0 THEN 1 ELSE 10 * Pow10(k - 1)

\* line 59
guess(lp, p) == lp * Pow10(Digits(p)) + p

\* the number of leading '0' characters of sha256(guess).hexdigest()
leading_zeros(g) == IF g \in ZeroPrefix2 THEN 2 ELSE IF g \in ZeroPrefix1 THEN 1 ELSE 0

\* line 61: guess_hash[:difficulty] == '0' * difficulty
valid_proof(self, lp, p) == leading_zeros(guess(lp, p)) >= self.difficulty

\* the loop returning the candidate after the one that passed
RECURSIVE proof_of_work_from_off_by_one(_, _, _)
proof_of_work_from_off_by_one(self, lp, p) ==
    IF valid_proof(self, lp, p) THEN p + 1
    ELSE proof_of_work_from_off_by_one(self, lp, p + 1)

\* the loop of lines 54-55 from candidate p on
RECURSIVE proof_of_work_from(_, _, _)
proof_of_work_from(self, lp, p) ==
    IF valid_proof(self, lp, p) THEN p ELSE proof_of_work_from(self, lp, p + 1)

\* proof_of_work without the search: the first candidate is returned
proof_of_work_no_search(self, lp) == 0

\* lines 52-56
proof_of_work(self, lp) == proof_of_work_from(self, lp, 0)

(***************************************************************************)
(* Replay: compute_balance, all_transactions and the summary helpers.      *)
(***************************************************************************)
\* balance_txs without the debit of lines 69-70 and 74-75
RECURSIVE balance_txs_credit_only(_, _, _)
balance_txs_credit_only(txs, address, balance) ==
    IF txs = <<>> THEN balance
    ELSE LET tx == Head(txs)
             credited == IF tx.recipient = address THEN balance + tx.amount ELSE balance
         IN balance_txs_credit_only(Tail(txs), address, credited)

\* the inner loops of lines 66-70 and 71-75
RECURSIVE balance_txs(_, _, _)
balance_txs(txs, address, balance) ==
    IF txs = <<>> THEN balance
    ELSE LET tx == Head(txs)
             credited == IF tx.recipient = address THEN balance + tx.amount ELSE balance
             debited == IF tx.sender = address THEN credited - tx.amount ELSE credited
         IN balance_txs(Tail(txs), address, debited)

\* the outer loop of line 65
RECURSIVE balance_blocks(_, _, _)
balance_blocks(blocks, address, balance) ==
    IF blocks = <<>> THEN Val(balance)
    ELSE IF "transactions" \notin DOMAIN Head(blocks) THEN Raised("KeyError")
    ELSE balance_blocks(Tail(blocks), address,
                        balance_txs(Head(blocks).transactions, address, balance))

compute_balance(self, address) ==
    LET sealed == balance_blocks(self.chain, address, 0)
    IN IF IsRaised(sealed) THEN sealed
       ELSE Val(balance_txs(self.current_transactions, address, sealed.val))

\* lines 84-87 for one block
confirmed_txs(block) ==
    [i \in 1..Len(block.transactions) |->
        [sender |-> block.transactions[i].sender,
         recipient |-> block.transactions[i].recipient,
         amount |-> block.transactions[i].amount,
         timestamp |-> block.transactions[i].timestamp,
         block_index |-> [int |-> block.index],
         block_timestamp |-> [float |-> block.timestamp],
         status |-> "confirmed"]]

\* lines 89-92
pending_txs(txs) ==
    [i \in 1..Len(txs) |->
        [sender |-> txs[i].sender,
         recipient |-> txs[i].recipient,
         amount |-> txs[i].amount,
         timestamp |-> txs[i].timestamp,
         block_index |-> [none |-> TRUE],
         block_timestamp |-> [none |-> TRUE],
         status |-> "pending"]]

RECURSIVE chain_txs(_)
chain_txs(blocks) ==
    IF blocks = <<>> THEN <<>>
    ELSE confirmed_txs(Head(blocks)) \o chain_txs(Tail(blocks))

all_transactions(self) ==
    IF \E i \in 1..Len(self.chain) :
          {"transactions", "index", "timestamp"} \ DOMAIN self.chain[i] # {}
    THEN Raised("KeyError")
    ELSE Val(chain_txs(self.chain) \o pending_txs(self.current_transactions))

\* lines 98-104: the set of senders and recipients, None removed
extract_addresses(tx_list) ==
    ({tx_list[i].sender : i \in 1..Len(tx_list)}
        \cup {tx_list[i].recipient : i \in 1..Len(tx_list)}) \ {PyNone}

RECURSIVE sum_amounts(_, _, _)
sum_amounts(txs, field, addr) ==
    IF txs = <<>> THEN 0
    ELSE (IF Head(txs)[field] = addr THEN Head(txs).amount ELSE 0)
         + sum_amounts(Tail(txs), field, addr)

\* lines 106-129; the rows as a set, one per address of extract_addresses
address_summary(self) ==
    LET txs == all_transactions(self)
    IN IF IsRaised(txs) THEN txs
       ELSE Val({ [address |-> addr,
                   balance |-> compute_balance(self, addr).val,
                   received_total |-> sum_amounts(txs.val, "recipient", addr),
                   sent_total |-> sum_amounts(txs.val, "sender", addr)]
                  : addr \in extract_addresses(txs.val) })

\* lines 131-134: the amounts of the reported transactions sent by "0"
total_minted(self) ==
    LET txs == all_transactions(self)
    IN IF IsRaised(txs) THEN txs ELSE Val(sum_amounts(txs.val, "sender", "0"))

\* df['balance'].sum() over the rows of the summary
RECURSIVE sum_balances(_)
sum_balances(rows) ==
    IF rows = {} THEN 0
    ELSE LET row == CHOOSE r \in rows : TRUE
         IN row.balance + sum_balances(rows \ {row})

\* lines 136-141
total_in_circulation(self) ==
    LET df == address_summary(self)
    IN IF IsRaised(df) THEN df
       ELSE IF df.val = {} THEN Val(0)
       ELSE Val(sum_balances(df.val))

(***************************************************************************)
(* The scenario of spec section 8, as the handlers that have run since     *)
(* construction: 1 after submit(A, B, 5), 2 after the seal that follows,   *)
(* 3 after submit("0", B, 1), 4 after the second seal; -1 once any other   *)
(* handler has run.                                                        *)
(***************************************************************************)
ScriptAfterSubmit(s, in) ==
    IF s = 0 /\ in = <<"A", "B", 5>> THEN 1
    ELSE IF s = 2 /\ in = <<"0", "B", 1>> THEN 3
    ELSE -1

ScriptAfterSeal(s) == IF s = 1 THEN 2 ELSE IF s = 3 THEN 4 ELSE -1

(***************************************************************************)
(* Initial state: lines 149-150, a Blockchain, whose constructor seals the *)
(* genesis block.                                                          *)
(***************************************************************************)
Init ==
    /\ clock = 0
    /\ difficulty \in Difficulties
    /\ LET self == new_block([chain |-> <<>>, current_transactions |-> <<>>],
                             GenesisProof, [lit |-> "1"], GenesisNote, 0)
       IN /\ chain = self.chain
          /\ current_transactions = self.current_transactions
    /\ pc = "idle"
    /\ last_proof = 0
    /\ proof = 0
    /\ note = ""
    /\ returned = <<>>
    /\ outcome = [op |-> "init", error |-> "none"]
    /\ script = 0

\* time passes
Tick ==
    /\ UNCHANGED difficulty
    /\ clock' \in {t \in Times : t > clock}
    /\ UNCHANGED <<chain, current_transactions, pc, last_proof, proof, note,
                   returned, outcome, script>>

\* the three handlers that call new_transaction with user input
\* (lines 250-252, 256-268, 277-279)
AddTransaction ==
    /\ UNCHANGED difficulty
    /\ pc = "idle"
    /\ Len(current_transactions) < MaxPending
    /\ \E in \in TxInputs :
          LET call == new_transaction(bc, in[1], in[2], in[3], clock)
          IN /\ chain' = call.self.chain
             /\ current_transactions' = call.self.current_transactions
             /\ returned' = Append(returned, call.result)
             /\ outcome' = [op |-> "submit", error |-> Err(call.result)]
             /\ script' = ScriptAfterSubmit(script, in)
    /\ UNCHANGED <<pc, last_proof, proof, note, clock>>

\* mine handler, line 232: last_proof = bc.last_block['proof']
MineBegin ==
    /\ UNCHANGED difficulty
    /\ pc = "idle"
    /\ Len(chain) < MaxChain
    /\ Len(current_transactions) <= MaxPending
    /\ LET last == last_block(bc)
       IN IF IsRaised(last)
          THEN /\ outcome' = [op |-> "mine", error |-> Err(last)]
               /\ UNCHANGED <<pc, last_proof, note>>
          ELSE IF "proof" \notin DOMAIN last.val
          THEN /\ outcome' = [op |-> "mine", error |-> "KeyError"]
               /\ UNCHANGED <<pc, last_proof, note>>
          ELSE /\ last_proof' = last.val.proof
               /\ note' \in Notes
               /\ pc' = "pow"
               /\ UNCHANGED outcome
    /\ UNCHANGED <<chain, current_transactions, proof, clock, returned, script>>

\* line 234: proof = bc.proof_of_work(last_proof)
MinePow ==
    /\ UNCHANGED difficulty
    /\ pc = "pow"
    /\ proof' = proof_of_work(bc, last_proof)
    /\ pc' = "reward"
    /\ UNCHANGED <<chain, current_transactions, last_proof, note, clock,
                   returned, outcome, script>>

\* line 236: bc.new_transaction(sender="0", recipient=node_id, amount=1)
MineReward ==
    /\ UNCHANGED difficulty
    /\ pc = "reward"
    /\ LET call == new_transaction(bc, "0", NodeId, 1, clock)
       IN /\ chain' = call.self.chain
          /\ current_transactions' = call.self.current_transactions
          /\ returned' = Append(returned, call.result)
          /\ IF IsRaised(call.result)
             THEN /\ pc' = "idle"
                  /\ outcome' = [op |-> "mine", error |-> Err(call.result)]
             ELSE /\ pc' = "seal"
                  /\ UNCHANGED outcome
    /\ UNCHANGED <<last_proof, proof, note, clock, script>>

\* line 237: new_block = bc.new_block(proof, note=note)
MineSeal ==
    /\ UNCHANGED difficulty
    /\ pc = "seal"
    /\ LET self == new_block(bc, proof, NoHash, note, clock)
       IN /\ chain' = self.chain
          /\ current_transactions' = self.current_transactions
    /\ pc' = "idle"
    /\ returned' = <<>>
    /\ outcome' = [op |-> "mine", error |-> "none"]
    /\ script' = ScriptAfterSeal(script)
    /\ UNCHANGED <<last_proof, proof, note, clock>>

(***************************************************************************)
(* Files offered to the uploader.                                          *)
(***************************************************************************)
\* a file written elsewhere: two block records whose indices are not their
\* positions, the second not linked to the first and holding a transaction
\* without sender
ForeignFile ==
    [arr |-> <<
        [obj |-> [index |-> [num |-> 5], timestamp |-> [num |-> 0],
                  transactions |-> [arr |-> <<>>], proof |-> [num |-> 100],
                  previous_hash |-> [str |-> [lit |-> "1"]], note |-> [str |-> ""]]],
        [obj |-> [index |-> [num |-> 9], timestamp |-> [num |-> 0],
                  transactions |-> [arr |-> <<
                      [obj |-> [sender |-> [null |-> TRUE], recipient |-> [str |-> "A"],
                                amount |-> [num |-> 2], timestamp |-> [num |-> 0]]] >>],
                  proof |-> [num |-> 100],
                  previous_hash |-> [str |-> [lit |-> "bogus"]],
                  note |-> [str |-> ""]]] >>]

\* the blocks ForeignFile lists
ForeignChain ==
    << [index |-> 5, timestamp |-> 0, transactions |-> <<>>, proof |-> 100,
        previous_hash |-> [lit |-> "1"], note |-> ""],
       [index |-> 9, timestamp |-> 0,
        transactions |-> << [sender |-> PyNone, recipient |-> "A",
                             amount |-> 2, timestamp |-> 0] >>,
        proof |-> 100, previous_hash |-> [lit |-> "bogus"], note |-> ""] >>

Uploads ==
    { [bad |-> TRUE],                              \* not JSON
      [obj |-> [note |-> [str |-> "x"]]],          \* a JSON object, not a list
      [arr |-> <<>>],                              \* the empty list
      [arr |-> << [obj |-> [proof |-> [num |-> 100]]] >>], \* a list of a non-block
      ForeignFile,
      json_dumps(chain) }                          \* the file line 315 exports

\* import_chain without line 324: the pending batch survives the import
import_chain_keeps_pending(self, doc) ==
    LET loaded == json_loads(doc)
    IN IF IsRaised(loaded)
       THEN [self |-> self, result |-> loaded]
       ELSE IF "list" \in DOMAIN loaded.val
       THEN [self |-> [chain |-> loaded.val.list,
                       current_transactions |-> self.current_transactions],
             result |-> Val("ok")]
       ELSE [self |-> self, result |-> Raised("not a list")]

\* lines 319-329 on the uploaded text: the ledger afterwards and the message
import_chain(self, doc) ==
    LET loaded == json_loads(doc)
    IN IF IsRaised(loaded)
       THEN [self |-> self, result |-> loaded]
       ELSE IF "list" \in DOMAIN loaded.val
       THEN [self |-> [chain |-> loaded.val.list, current_transactions |-> <<>>],
             result |-> Val("ok")]
       ELSE [self |-> self, result |-> Raised("not a list")]

\* the upload handler, lines 317-329
Import ==
    /\ UNCHANGED difficulty
    /\ pc = "idle"
    /\ \E doc \in Uploads :
          LET done == import_chain(bc, doc)
          IN /\ chain' = done.self.chain
             /\ current_transactions' = done.self.current_transactions
             /\ returned' = IF IsRaised(done.result) THEN returned ELSE <<>>
             /\ outcome' = [op |-> "import", error |-> Err(done.result)]
    /\ script' = -1
    /\ UNCHANGED <<pc, last_proof, proof, note, clock>>

Next ==
    \/ Tick
    \/ AddTransaction
    \/ MineBegin
    \/ MinePow
    \/ MineReward
    \/ MineSeal
    \/ Import

Spec == Init /\ [][Next]_vars

\* the ledger without the uploader
NextNoImport ==
    \/ Tick
    \/ AddTransaction
    \/ MineBegin
    \/ MinePow
    \/ MineReward
    \/ MineSeal

SpecNoImport == Init /\ [][NextNoImport]_vars

(***************************************************************************)
(* The search of proof_of_work taken one iteration at a time: the mine     *)
(* handler with the call of line 234 unfolded into the loop of lines       *)
(* 53-56.  The search is followed through the candidates 0..MaxProof; at   *)
(* difficulty 1 the handler finds its proofs among them, at difficulty 2   *)
(* none of them passes for the genesis proof (the first that does is 226). *)
(***************************************************************************)
MaxProof == 50     \* candidates 0..MaxProof are followed

PowDifficulties == {1, 2}

InitPow ==
    /\ clock = 0
    /\ difficulty \in PowDifficulties
    /\ LET self == new_block([chain |-> <<>>, current_transactions |-> <<>>],
                             GenesisProof, [lit |-> "1"], GenesisNote, 0)
       IN /\ chain = self.chain
          /\ current_transactions = self.current_transactions
    /\ pc = "idle"
    /\ last_proof = 0
    /\ proof = 0
    /\ note = ""
    /\ returned = <<>>
    /\ outcome = [op |-> "init", error |-> "none"]
    /\ script = 0

\* an iteration that tests the candidate and never moves to the next one
proof_of_work_step_no_increment(self, lp, p) ==
    [done |-> valid_proof(self, lp, p), proof |-> p]

\* lines 54-56: one test of the while condition, then proof += 1 or return
proof_of_work_step(self, lp, p) ==
    IF valid_proof(self, lp, p) THEN [done |-> TRUE, proof |-> p]
    ELSE [done |-> FALSE, proof |-> p + 1]

\* line 53: proof = 0
PowStart ==
    /\ UNCHANGED difficulty
    /\ pc = "pow"
    /\ proof' = 0
    /\ pc' = "scan"
    /\ UNCHANGED <<chain, current_transactions, last_proof, note, clock,
                   returned, outcome, script>>

\* lines 54-56
PowStep ==
    /\ UNCHANGED difficulty
    /\ pc = "scan"
    /\ proof <= MaxProof
    /\ LET step == proof_of_work_step(bc, last_proof, proof)
       IN /\ proof' = step.proof
          /\ pc' = IF step.done THEN "reward" ELSE "scan"
    /\ UNCHANGED <<chain, current_transactions, last_proof, note, clock,
                   returned, outcome, script>>

NextPow ==
    \/ Tick
    \/ AddTransaction
    \/ MineBegin
    \/ PowStart
    \/ PowStep
    \/ MineReward
    \/ MineSeal

\* the loop is sequential code: an iteration that can run does run
SpecPow == InitPow /\ [][NextPow]_vars /\ WF_vars(PowStep)

(***************************************************************************)
(* Vocabulary of the properties.                                           *)
(***************************************************************************)
BlockKeys == {"index", "timestamp", "transactions", "proof", "previous_hash"}

IsBlockShaped(b) == BlockKeys \subseteq DOMAIN b

\* every non-genesis block names the hash of the block stored before it
LinkCheck(ch) ==
    \A i \in 2..Len(ch) :
        "previous_hash" \in DOMAIN ch[i] /\ ch[i].previous_hash = hash(ch[i - 1])

Sealing == pc = "seal" /\ pc' = "idle"

(***************************************************************************)
(* C1: a seal (new_block) puts exactly the pending batch of that moment,   *)
(* in the same order, into the one block it appends, and leaves the        *)
(* pending batch empty.                                                    *)
(***************************************************************************)
C1_SealTakesPendingBatch ==
    [][Sealing =>
          /\ Len(chain') = Len(chain) + 1
          /\ chain'[Len(chain')].transactions = current_transactions
          /\ current_transactions' = <<>>]_vars

\* a block sealed with a user transaction and then the reward, pending empty
C1_Witness ==
    /\ pc = "idle"
    /\ outcome = [op |-> "mine", error |-> "none"]
    /\ chain # <<>>
    /\ IsBlockShaped(chain[Len(chain)])
    /\ Len(chain[Len(chain)].transactions) = 2
    /\ chain[Len(chain)].transactions[1].sender = "A"
    /\ chain[Len(chain)].transactions[2].sender = "0"
    /\ current_transactions = <<>>

(***************************************************************************)
(* C2: without import, in every reachable state every non-genesis block's  *)
(* previous_hash is the hash of the block stored just before it.           *)
(***************************************************************************)
C2_ChainLinked == LinkCheck(chain)

\* two blocks sealed on top of the genesis block
C2_Witness == Len(chain) = 3 /\ chain[3].transactions # chain[2].transactions

(***************************************************************************)
(* C3: the value new_transaction returned for a pending transaction is     *)
(* the index of the block the next seal puts it in.                        *)
(***************************************************************************)
C3_ReturnedIndexIsSealedIndex ==
    [][Sealing =>
          \A i \in 1..Len(returned) :
              returned[i] = Val(chain'[Len(chain')].index)]_vars

(***************************************************************************)
(* C4: for every address, compute_balance is the sum of the amounts it     *)
(* received minus the sum of the amounts it sent, over every transaction   *)
(* of every block and of the pending batch.                                *)
(***************************************************************************)
Addresses == {"A", "B", "0", NodeId}

\* the places a transaction is stored at: <<block position, position in the
\* block>>, block position 0 for the pending batch
StoredPlaces ==
    { <<0, j>> : j \in 1..Len(current_transactions) }
    \cup UNION { { <<i, j>> : j \in 1..Len(chain[i].transactions) }
                 : i \in {k \in 1..Len(chain) : "transactions" \in DOMAIN chain[k]} }

TxAt(pl) ==
    IF pl[1] = 0 THEN current_transactions[pl[2]] ELSE chain[pl[1]].transactions[pl[2]]

\* the sum of the amounts of the transactions at the places S whose field
\* (sender or recipient) is the address a
RECURSIVE SumAt(_, _, _)
SumAt(S, field, a) ==
    IF S = {} THEN 0
    ELSE LET pl == CHOOSE x \in S : TRUE
         IN (IF TxAt(pl)[field] = a THEN TxAt(pl).amount ELSE 0)
            + SumAt(S \ {pl}, field, a)

Credit(a) == SumAt(StoredPlaces, "recipient", a)

Debit(a) == SumAt(StoredPlaces, "sender", a)

C4_BalanceIsCreditMinusDebit ==
    \A a \in Addresses : compute_balance(bc, a) = Val(Credit(a) - Debit(a))

(***************************************************************************)
(* C5: a fresh ledger has one block (proof 100, previous_hash "1", no      *)
(* transactions) and nothing pending; after submit(A, B, 5) and a seal the *)
(* chain has 2 blocks, A has -5 and B has 5; after submit("0", B, 1) and   *)
(* another seal the chain has 3 blocks and B has 6.                        *)
(***************************************************************************)
C5_Scenario ==
    /\ (script = 0 /\ pc = "idle") =>
          /\ Len(chain) = 1
          /\ chain[1].proof = 100
          /\ chain[1].previous_hash = [lit |-> "1"]
          /\ chain[1].transactions = <<>>
          /\ current_transactions = <<>>
    /\ script = 2 =>
          /\ Len(chain) = 2
          /\ compute_balance(bc, "A") = Val(-5)
          /\ compute_balance(bc, "B") = Val(5)
    /\ script = 4 =>
          /\ Len(chain) = 3
          /\ compute_balance(bc, "B") = Val(6)

\* the scenario has been run to its end
C5_Witness == script = 4 /\ pc = "idle"

(***************************************************************************)
(* C6: the mine handler never ends in an error, whatever submits, seals    *)
(* and successful imports came before.                                     *)
(***************************************************************************)
C6_SealNeverFails == outcome.op = "mine" => outcome.error = "none"

(***************************************************************************)
(* C7: an import of anything but a list of block-shaped records ends in    *)
(* an error and leaves the chain and the pending batch as they were.       *)
(***************************************************************************)
IsBlockList(doc) ==
    /\ "arr" \in DOMAIN doc
    /\ \A i \in 1..Len(doc.arr) :
          "obj" \in DOMAIN doc.arr[i] /\ BlockKeys \subseteq DOMAIN doc.arr[i].obj

\* the step is the upload handler run on the text doc
ImportOf(doc) ==
    /\ outcome'.op = "import"
    /\ pc = "idle"
    /\ UNCHANGED <<pc, last_proof, proof, note, clock>>
    /\ LET done == import_chain(bc, doc)
       IN /\ outcome'.error = Err(done.result)
          /\ chain' = done.self.chain
          /\ current_transactions' = done.self.current_transactions

C7_MalformedImportRejected ==
    [][\A doc \in Uploads :
          (ImportOf(doc) /\ ~IsBlockList(doc)) =>
              /\ outcome'.error # "none"
              /\ chain' = chain
              /\ current_transactions' = current_transactions]_vars

(***************************************************************************)
(* C8: an import of a list succeeds without any check of the hash links,   *)
(* sets the chain to exactly the listed blocks and empties the pending     *)
(* batch, whatever it held.                                                *)
(***************************************************************************)
BlocksOf(doc) == [i \in 1..Len(doc.arr) |-> loads_block(doc.arr[i])]

C8_ImportReplacesAndClears ==
    [][\A doc \in Uploads :
          (ImportOf(doc) /\ "arr" \in DOMAIN doc) =>
              /\ outcome'.error = "none"
              /\ chain' = BlocksOf(doc)
              /\ current_transactions' = <<>>]_vars

\* a chain whose links do not check has been imported
C8_Witness ==
    /\ outcome = [op |-> "import", error |-> "none"]
    /\ chain = ForeignChain
    /\ ~LinkCheck(chain)
    /\ current_transactions = <<>>

(***************************************************************************)
(* C9: importing the exported chain unchanged succeeds and gives a chain   *)
(* equal to the original in every block and field, whose links check if    *)
(* they did before.                                                        *)
(***************************************************************************)
C9_ExportImportRoundTrip ==
    LET done == import_chain(bc, json_dumps(chain))
    IN /\ Err(done.result) = "none"
       /\ done.self.chain = chain
       /\ LinkCheck(chain) => LinkCheck(done.self.chain)

\* a linked chain of three blocks with transactions has come back from its
\* own export
C9_Witness ==
    /\ outcome = [op |-> "import", error |-> "none"]
    /\ Len(chain) = 3
    /\ LinkCheck(chain)
    /\ Len(chain[2].transactions) = 2
    /\ chain[3].timestamp = 1

(***************************************************************************)
(* C10: address_summary has one row per address seen as sender or          *)
(* recipient in the chain or the pending batch, with that address's        *)
(* balance, and no row for the mint address "0".                           *)
(***************************************************************************)
SeenAddresses ==
    ({TxAt(pl).sender : pl \in StoredPlaces}
        \cup {TxAt(pl).recipient : pl \in StoredPlaces}) \ {PyNone}

C10_SummaryExcludesMint ==
    LET summary == address_summary(bc)
    IN ~IsRaised(summary) =>
          /\ {row.address : row \in summary.val} = SeenAddresses \ {"0"}
          /\ \A row \in summary.val :
                compute_balance(bc, row.address) = Val(row.balance)
          /\ Cardinality(summary.val) = Cardinality(SeenAddresses \ {"0"})

(***************************************************************************)
(* C11: without import, the proof of every non-genesis block, put after    *)
(* the proof of the block before it, has a SHA-256 digest with at least    *)
(* difficulty leading zero characters.                                     *)
(***************************************************************************)
C11_SealedProofsValid ==
    \A i \in 2..Len(chain) :
        leading_zeros(guess(chain[i - 1].proof, chain[i].proof)) >= difficulty

\* two blocks mined, the second on the proof of the first
C11_Witness ==
    /\ Len(chain) = 3
    /\ chain[2].proof = 16
    /\ chain[3].proof = 31

(***************************************************************************)
(* C12: proof_of_work(last_proof) returns the smallest p >= 0 for which    *)
(* valid_proof(last_proof, p) holds, the same for the same last_proof.     *)
(***************************************************************************)
C12_SmallestProof ==
    pc \in {"reward", "seal"} =>
        /\ proof >= 0
        /\ leading_zeros(guess(last_proof, proof)) >= difficulty
        /\ \A q \in 0..(proof - 1) :
              leading_zeros(guess(last_proof, q)) < difficulty
        /\ proof = proof_of_work([chain |-> <<>>, current_transactions |-> <<>>,
                                  difficulty |-> difficulty], last_proof)

\* the search has returned 31 for the last proof 16, after 31 failed candidates
C12_Witness == pc = "reward" /\ last_proof = 16 /\ proof = 31

(***************************************************************************)
(* C13: without import the chain is append-only and sealed blocks are      *)
(* immutable: every step keeps every block at its position with the same   *)
(* content, and a submit that follows a seal leaves the transactions of    *)
(* the block just sealed as they were.                                     *)
(***************************************************************************)
C13_ChainAppendOnly ==
    [][/\ Len(chain') >= Len(chain)
       /\ \A i \in 1..Len(chain) : chain'[i] = chain[i]
       /\ (Len(current_transactions') = Len(current_transactions) + 1
           /\ Len(chain) > 1)
          => chain'[Len(chain)].transactions = chain[Len(chain)].transactions
      ]_vars

\* a transaction submitted after a seal is pending next to the sealed block
C13_Witness ==
    /\ Len(chain) = 2
    /\ Len(chain[2].transactions) = 2
    /\ Len(current_transactions) = 1
    /\ pc = "idle"

(***************************************************************************)
(* C15: without import the block at position k, counted from 1, has index  *)
(* k: the genesis block has index 1 and the last block's index is the      *)
(* length of the chain.                                                    *)
(***************************************************************************)
C15_IndexIsPosition ==
    /\ chain # <<>>
    /\ chain[1].index = 1
    /\ chain[Len(chain)].index = Len(chain)
    /\ \A k \in 1..Len(chain) : chain[k].index = k

\* three blocks, numbered 1, 2, 3
C15_Witness == Len(chain) = 3 /\ chain[3].index = 3 /\ pc = "idle"

(***************************************************************************)
(* C16: new_block changes no balance: compute_balance(a) is the same       *)
(* right after the seal as right before it, for every address a; a balance *)
(* changes only in a step that appends a transaction (new_transaction) or  *)
(* replaces the chain (import).                                            *)
(***************************************************************************)
C16_SealBalanceNeutral ==
    [][/\ Sealing =>
            \A a \in Addresses : compute_balance(bc', a) = compute_balance(bc, a)
       /\ (\E a \in Addresses : compute_balance(bc', a) # compute_balance(bc, a))
            => \/ /\ chain' = chain
                  /\ Len(current_transactions') = Len(current_transactions) + 1
               \/ outcome'.op = "import"
      ]_vars

\* a block holding a user transaction and the reward has just been sealed, and
\* the balances stand as the pending batch left them
C16_Witness ==
    /\ pc = "idle"
    /\ outcome.op = "mine" /\ outcome.error = "none"
    /\ Len(chain) = 2
    /\ Len(chain[2].transactions) = 2
    /\ current_transactions = <<>>
    /\ compute_balance(bc, "B") = Val(5)
    /\ compute_balance(bc, NodeId) = Val(1)

(***************************************************************************)
(* C14: the search of proof_of_work returns only at a candidate that       *)
(* passes valid_proof, and as long as no candidate has passed it goes on   *)
(* to the next one; if a candidate among those followed passes, the search *)
(* returns after finitely many iterations; an iteration changes neither    *)
(* the chain nor the pending transactions.                                 *)
(***************************************************************************)
PassingCandidate == \E q \in 0..MaxProof : valid_proof(bc, last_proof, q)

C14_SearchTerminates ==
    /\ [][pc = "scan" =>
            /\ chain' = chain
            /\ current_transactions' = current_transactions
            /\ pc' \in {"scan", "reward"}
            /\ \A q \in 0..(proof - 1) : ~valid_proof(bc, last_proof, q)
            /\ pc' = "reward" => valid_proof(bc, last_proof, proof) /\ proof' = proof
            /\ (pc' = "scan" /\ proof' # proof) =>
                  ~valid_proof(bc, last_proof, proof) /\ proof' = proof + 1
         ]_vars
    /\ (pc = "scan" /\ PassingCandidate) ~> (pc = "reward")

\* the search has gone through 31 candidates and is at the one that passes
C14_Witness ==
    /\ pc = "scan"
    /\ difficulty = 1
    /\ last_proof = 16
    /\ proof = 31
    /\ Len(chain) = 2

\* the search at difficulty 2, 40 candidates tried and none passing so far
C14_LongSearch ==
    /\ pc = "scan"
    /\ difficulty = 2
    /\ ~PassingCandidate
    /\ proof = 40

(***************************************************************************)
(* C17: in every state in which every stored transaction has a sender and  *)
(* a recipient other than None, total_in_circulation, the sum of the       *)
(* balances of the summary rows, the row of "0" included, is zero.         *)
(***************************************************************************)
NonNullParties ==
    \A pl \in StoredPlaces :
        TxAt(pl).sender # PyNone /\ TxAt(pl).recipient # PyNone

C17_Conservation == NonNullParties => total_in_circulation(bc) = Val(0)

\* the same on the states whose summary can be computed
C17_ConservationWhenComputed ==
    (NonNullParties /\ ~IsRaised(address_summary(bc)))
        => total_in_circulation(bc) = Val(0)

\* two rewards minted and a user transfer sealed
C17_MintedState ==
    /\ pc = "idle"
    /\ Len(chain) = 3
    /\ NonNullParties
    /\ total_minted(bc) = Val(2)
    /\ compute_balance(bc, "B") = Val(5)

(***************************************************************************)
(* C18: every run of the mine handler appends exactly one reward           *)
(* transaction (sender "0", recipient node_id, amount 1) once the proof is *)
(* found and before the seal, so the reward is the last transaction of the *)
(* block mined and no reward is pending between two handlers; on the       *)
(* ledger grown from the genesis block, with no user transaction sent by   *)
(* "0", total_minted is the number of blocks after the genesis block.      *)
(***************************************************************************)
RewardTx(t) == t.sender = "0" /\ t.recipient = NodeId /\ t.amount = 1

\* the chain starts with the genesis block of the constructor
OwnChain ==
    /\ chain # <<>>
    /\ IsBlockShaped(chain[1])
    /\ chain[1].note = GenesisNote

\* every stored transaction sent by "0" is a reward
NoUserMint ==
    \A pl \in StoredPlaces : TxAt(pl).sender = "0" => RewardTx(TxAt(pl))

C18_RewardSealedWithBlock ==
    /\ [][/\ (pc = "reward" /\ pc' # "reward") =>
                /\ valid_proof(bc, last_proof, proof)
                /\ Len(current_transactions') = Len(current_transactions) + 1
                /\ SubSeq(current_transactions', 1, Len(current_transactions))
                      = current_transactions
                /\ RewardTx(current_transactions'[Len(current_transactions')])
                /\ pc' = "seal"
          /\ Sealing =>
                LET txs == chain'[Len(chain')].transactions
                IN /\ txs # <<>>
                   /\ RewardTx(txs[Len(txs)])
                   /\ \A j \in 1..(Len(txs) - 1) : ~RewardTx(txs[j])
         ]_vars
    /\ [](pc = "idle" =>
            \A j \in 1..Len(current_transactions) :
                ~RewardTx(current_transactions[j]))
    /\ []((pc = "idle" /\ OwnChain /\ NoUserMint) =>
            total_minted(bc) = Val(Len(chain) - 1))

\* two blocks mined on the fresh ledger, two rewards minted, none pending
C18_Witness ==
    /\ pc = "idle"
    /\ OwnChain /\ NoUserMint
    /\ Len(chain) = 3
    /\ RewardTx(chain[3].transactions[Len(chain[3].transactions)])
    /\ Len(chain[2].transactions) = 2
    /\ total_minted(bc) = Val(2)

(***************************************************************************)
(* C19: all_transactions reports every stored transaction once: those of   *)
(* the blocks first, in chain order, as 'confirmed' with the index of      *)
(* their block, then the pending ones in submission order as 'pending'     *)
(* with block_index None.  A seal reports every transaction that was       *)
(* pending as confirmed, with the index its submit returned; and no step   *)
(* other than an import removes a reported transaction or turns a          *)
(* confirmed one back to pending.                                          *)
(***************************************************************************)
\* the number of transactions in the blocks of ch before position i
RECURSIVE TxsBefore(_, _)
TxsBefore(ch, i) ==
    IF i <= 1 THEN 0
    ELSE TxsBefore(ch, i - 1) + Len(ch[i - 1].transactions)

\* a reported transaction without what the report adds to it
Core(e) ==
    [sender |-> e.sender, recipient |-> e.recipient, amount |-> e.amount,
     timestamp |-> e.timestamp]

Cores(rows) == [k \in 1..Len(rows) |-> Core(rows[k])]

IsPrefix(s, t) == Len(s) <= Len(t) /\ SubSeq(t, 1, Len(s)) = s

C19_ReportComplete ==
    LET r == all_transactions(bc)
    IN /\ ~IsRaised(r)
       /\ Len(r.val) = Cardinality(StoredPlaces)
       /\ \A i \in 1..Len(chain) : \A j \in 1..Len(chain[i].transactions) :
             LET e == r.val[TxsBefore(chain, i) + j]
             IN /\ Core(e) = chain[i].transactions[j]
                /\ e.status = "confirmed"
                /\ e.block_index = [int |-> chain[i].index]
       /\ \A j \in 1..Len(current_transactions) :
             LET e == r.val[TxsBefore(chain, Len(chain) + 1) + j]
             IN /\ Core(e) = current_transactions[j]
                /\ e.status = "pending"
                /\ e.block_index = [none |-> TRUE]

C19_PendingConfirmedAtSeal ==
    Sealing =>
        LET r == all_transactions(bc')
        IN /\ ~IsRaised(r)
           /\ Len(returned) = Len(current_transactions)
           /\ \A j \in 1..Len(current_transactions) :
                 LET e == r.val[TxsBefore(chain', Len(chain')) + j]
                 IN /\ Core(e) = current_transactions[j]
                    /\ e.status = "confirmed"
                    /\ e.block_index = [int |-> returned[j].val]

C19_ConfirmedStays ==
    LET r == all_transactions(bc)
        q == all_transactions(bc')
    IN (outcome'.op # "import" /\ ~IsRaised(r)) =>
          /\ ~IsRaised(q)
          /\ IsPrefix(Cores(r.val), Cores(q.val))
          /\ IsPrefix(chain_txs(chain), chain_txs(chain'))

C19_ReportFollowsLedger ==
    /\ []C19_ReportComplete
    /\ [][C19_PendingConfirmedAtSeal /\ C19_ConfirmedStays]_vars

\* a block with a user transaction and the reward sealed, another submit pending
C19_Witness ==
    /\ pc = "idle"
    /\ Len(chain) = 2
    /\ Len(chain[2].transactions) = 2
    /\ Len(current_transactions) = 1
    /\ Len(all_transactions(bc).val) = 3
    /\ all_transactions(bc).val[1].block_index = [int |-> 2]
    /\ all_transactions(bc).val[3].status = "pending"

====
